---- MODULE Spec2Model ----
(***************************************************************************)
(* Tile-batch jobs of basemap-generator: job/create_color-relief and       *)
(* job/create_hillshade.  Each job script enumerates a 10-degree grid,     *)
(* lists the artifacts already in the bucket, submits one task per tile    *)
(* that is not listed to a thread pool, and logs the tasks that raise.     *)
(*                                                                         *)
(* Text is modelled as a sequence of one-character strings, so that        *)
(* f-string formatting, str.split and str.join are computed, not assumed.  *)
(***************************************************************************)
EXTENDS Integers, Sequences, FiniteSets, TLC

(***************************************************************************)
(* Bounds of the model.                                                    *)
(***************************************************************************)
\* number of grid cells a modelled run iterates over (spread over bboxes)
MaxTiles == 2
\* largest value os.cpu_count() returns in the model
MaxCpus == 1

(***************************************************************************)
(* Text helpers: Python str operations on sequences of characters.         *)
(***************************************************************************)
DigitChars == <<"0", "1", "2", "3", "4", "5", "6", "7", "8", "9">>

\* decimal digits of a natural number, as str(n) gives them
RECURSIVE Digits(_)
Digits(n) ==
    IF n < 10 THEN <<DigitChars[n + 1]>>
    ELSE Digits(n \div 10) \o <<DigitChars[(n % 10) + 1]>>

RECURSIVE Zeros(_)
Zeros(k) == IF k <= 0 THEN <<>> ELSE <<"0">> \o Zeros(k - 1)

\* the format spec 03d: sign first, then zero fill up to a total width of 3
Format03d(n) ==
    LET sign == IF n < 0 THEN <<"-">> ELSE <<>>
        d    == Digits(IF n < 0 THEN -n ELSE n)
    IN  sign \o Zeros(3 - Len(sign) - Len(d)) \o d

\* s[i:] starts with sep
StartsAt(s, i, sep) ==
    /\ i + Len(sep) - 1 <= Len(s)
    /\ \A j \in 1..Len(sep) : s[i + j - 1] = sep[j]

\* str.find(sep, i): the first position from i on where sep occurs, 0 if none
FindFrom(s, sep, i) ==
    LET hits == {j \in i..Len(s) : StartsAt(s, j, sep)}
    IN  IF hits = {} THEN 0 ELSE CHOOSE j \in hits : \A k \in hits : j <= k

\* str.split(sep): the pieces between the non-overlapping occurrences of sep,
\* scanned left to right from position i
RECURSIVE SplitFrom(_, _, _)
SplitFrom(s, sep, i) ==
    LET j == FindFrom(s, sep, i)
    IN  IF j = 0 THEN <<SubSeq(s, i, Len(s))>>
        ELSE <<SubSeq(s, i, j - 1)>> \o SplitFrom(s, sep, j + Len(sep))

Split(s, sep) == SplitFrom(s, sep, 1)

\* sep.join(parts)
RECURSIVE Join(_, _)
Join(parts, sep) ==
    IF Len(parts) = 0 THEN <<>>
    ELSE IF Len(parts) = 1 THEN parts[1]
    ELSE parts[1] \o sep \o Join(Tail(parts), sep)

\* seq[-n:]
LastN(seq, n) ==
    IF Len(seq) <= n THEN seq ELSE SubSeq(seq, Len(seq) - n + 1, Len(seq))

\* seq[:-1]
DropLast(seq) == IF Len(seq) = 0 THEN seq ELSE SubSeq(seq, 1, Len(seq) - 1)

\* the elements of a sequence
Range(seq) == {seq[i] : i \in 1..Len(seq)}

(***************************************************************************)
(* The grid: module-level loop building bboxes.                            *)
(***************************************************************************)
XStart == -180
XStop == 180
YStart == -90
YStop == 90
Step == 10

\* the value of a run of decimal digits, leading zeros allowed
RECURSIVE ParseNat(_)
ParseNat(s) ==
    IF Len(s) = 0 THEN 0
    ELSE 10 * ParseNat(DropLast(s))
         + (CHOOSE d \in 0..9 : DigitChars[d + 1] = s[Len(s)])

\* int(s) for an optional minus sign followed by decimal digits
ParseInt(s) ==
    IF Len(s) > 0 /\ s[1] = "-" THEN -ParseNat(SubSeq(s, 2, Len(s)))
    ELSE ParseNat(s)

\* the reading of an id: the integer before 'X', and the integer between
\* '_' and 'Y'
DecodeId(id) ==
    LET atX  == Split(id, <<"X">>)
        rest == Split(atX[2], <<"_">>)
        atY  == Split(rest[2], <<"Y">>)
    IN  <<ParseInt(atX[1]), ParseInt(atY[1])>>

\* range that wrongly includes stop
PyRangeInclusive(start, stop, step) ==
    [i \in 1..((stop - start) \div step + 1) |-> start + (i - 1) * step]

\* range(start, stop, step) with a positive step
PyRange(start, stop, step) ==
    [i \in 1..((stop - start + step - 1) \div step) |-> start + (i - 1) * step]

\* f"{x:03d}X_{y:03d}Y"
\* the id without the sign of the coordinates
TileIdAbs(x, y) ==
    Format03d(IF x < 0 THEN -x ELSE x) \o <<"X", "_">>
        \o Format03d(IF y < 0 THEN -y ELSE y) \o <<"Y">>

TileId(x, y) == Format03d(x) \o <<"X", "_">> \o Format03d(y) \o <<"Y">>

BBox(x, y) ==
    [id |-> TileId(x, y), min_x |-> x, min_y |-> y,
     max_x |-> x + Step, max_y |-> y + Step]

\* the outer loop over x, the inner loop over y, one append per cell
bboxes ==
    LET xs == PyRange(XStart, XStop, Step)
        ys == PyRange(YStart, YStop, Step)
    IN  [k \in 1..(Len(xs) * Len(ys)) |->
            BBox(xs[((k - 1) \div Len(ys)) + 1], ys[((k - 1) % Len(ys)) + 1])]

\* the cells a modelled run iterates over: MaxTiles cells of bboxes, in the
\* order of bboxes, spread from the first cell to the last
RunTiles ==
    [i \in 1..MaxTiles |->
        bboxes[1 + ((i - 1) * (Len(bboxes) - 1)) \div (MaxTiles - 1)]]

Tiles == 1..MaxTiles

(***************************************************************************)
(* Names in the bucket.                                                    *)
(***************************************************************************)
Products == {"color_relief", "hillshade"}

DotTif == <<".", "t", "i", "f">>
Underscore == <<"_">>
Newline == <<"\n">>

BasemapUrl ==
    <<"g", "s", ":", "/", "/", "g", "e", "e", "-", "r", "a", "m", "i", "q",
      "c", "o", "m", "-", "s", "4", "g", "-", "b", "u", "c", "k", "e", "t",
      "/", "b", "a", "s", "e", "m", "a", "p", "/">>

\* the url main lists: gs://gee-ramiqcom-s4g-bucket/basemap/<product folder>
ListUrl(product) ==
    BasemapUrl \o
    (IF product = "color_relief"
     THEN <<"c", "o", "l", "o", "r", "_", "r", "e", "l", "i", "e", "f">>
     ELSE <<"h", "i", "l", "l", "s", "h", "a", "d", "e">>)

\* the file name up to the tile id: NASADEM_Color-Relief_ or NASADEM_Hillshade_
FileStem(product) ==
    IF product = "color_relief"
    THEN <<"N", "A", "S", "A", "D", "E", "M", "_",
           "C", "o", "l", "o", "r", "-", "R", "e", "l", "i", "e", "f", "_">>
    ELSE <<"N", "A", "S", "A", "D", "E", "M", "_",
           "H", "i", "l", "l", "s", "h", "a", "d", "e", "_">>

\* the destination of gcloud storage cp in the job
UploadKey(product, id) ==
    ListUrl(product) \o <<"/">> \o FileStem(product) \o id \o DotTif

\* main: "_".join(path.split(".tif")[0].split("_")[-2:])
ExtractIdLastToken(path) ==
    Join(LastN(Split(Split(path, DotTif)[1], Underscore), 1), Underscore)

ExtractId(path) ==
    Join(LastN(Split(Split(path, DotTif)[1], Underscore), 2), Underscore)

\* the text gcloud storage ls prints for a bucket holding keys: one line per
\* object under the listed url, each ended by a newline (the objects of the
\* cells, in the order of the cells)
RECURSIVE LsLines(_, _, _, _)
LsLines(prod, keys, cells, i) ==
    IF i > Len(cells) THEN <<>>
    ELSE (IF UploadKey(prod, cells[i].id) \in keys
          THEN UploadKey(prod, cells[i].id) \o Newline
          ELSE <<>>) \o LsLines(prod, keys, cells, i + 1)

LsOutput(prod, keys) == LsLines(prod, keys, RunTiles, 1)

\* main: check_output(...).split("\n")[:-1], then the id of every path
DoneKeepsPaths(text) == DropLast(Split(text, Newline))

DoneOf(text) ==
    LET paths == DropLast(Split(text, Newline))
    IN  [i \in 1..Len(paths) |-> ExtractId(paths[i])]

(***************************************************************************)
(* Configuration and the per-tile pipeline of each job script.             *)
(***************************************************************************)
\* os.cpu_count(): None (0 here) or a positive count
CpuCounts == 0..MaxCpus

\* MAX_WORKERS = os.cpu_count() or 1
MaxWorkersOf(cpu_count) == IF cpu_count = 0 THEN 1 ELSE cpu_count

\* ThreadPoolExecutor(8) in the color-relief script
ColorReliefWorkers == 8

\* the argument of ThreadPoolExecutor(...) in main
PoolSize(prod, max_workers) ==
    IF prod = "color_relief" THEN ColorReliefWorkers ELSE max_workers

\* positional parameters get_dem declares, and arguments the job passes to it
GetDemParams(prod) == 3
GetDemArgs(prod) == IF prod = "color_relief" THEN 3 ELSE 2

\* the engine commands of a job after the catalog query and before the upload,
\* in program order: those of get_dem, then those of create_*.  (The body of
\* the hillshade get_dem also makes a second TemporaryDirectory before its
\* commands; the call at line 98 never reaches the body.)
EngineCommands(prod) ==
    IF prod = "color_relief"
    THEN <<"gdal raster mosaic", "gdal raster color-map">>
    ELSE <<"gdalbuildvrt", "gdalwarp", "gdaldem hillshade", "gdalwarp COG">>

CatalogCommand(prod) ==
    IF prod = "color_relief" THEN "gdal vector pipeline" ELSE "ogrinfo"

UploadCommand == "gcloud storage cp"

\* outcomes of the catalog query: the command fails, or prints a feature
\* list that is empty or not
CatalogOutcomes == {"fails", "empty", "features"}

\* How the external services answer the commands of one tile's task: the
\* outcome of the catalog query, the engine command that fails (0: none) and
\* whether the upload succeeds.  A task stops at its first failure, so the
\* answers after the first failure are fixed to success.
Worlds(prod) ==
    {w \in [catalog : CatalogOutcomes,
            engine : 0..Len(EngineCommands(prod)),
            upload : BOOLEAN] :
        /\ (w.catalog # "features" => w.engine = 0)
        /\ (w.catalog # "features" \/ w.engine # 0 => w.upload)}

NoWorld == [catalog |-> "unasked", engine |-> 0, upload |-> TRUE]

AllSucceed(w) == w.catalog = "features" /\ w.engine = 0 /\ w.upload
EngineFails(w) == w.catalog = "features" /\ w.engine # 0

VARIABLES
    product,      \* which job script runs: "color_relief" or "hillshade"
    MAX_WORKERS,  \* the module-level constant computed from os.cpu_count()
    store,        \* the bucket: the set of object urls it holds
    store0,       \* the bucket as it was when this run started
    tmpdirs,      \* the temporary directories that exist on disk
    files,        \* files this run wrote and has not removed: directory,
                  \* name, writer (0: module startup)
    run,          \* "first" or "second" invocation of the script
    mainpc,       \* where main is: "list", "submit", "collect", "done"
    listed,       \* outcome of this run's listing: "pending", "ok", "failed"
    done,         \* main's list done
    next_i,       \* position of main's loop in the grid
    jobs,         \* main's list jobs: the tiles submitted, in order
    st,           \* per tile: the state of its task
    world,        \* per tile: how the external services answer its task
    calls,        \* per tile: the external commands its task has run
    collected,    \* tasks as_completed has yielded and main has handled
    log,          \* per tile: the "Error: ..." records main logged for it
    firstRun,     \* second run: tasks submitted and returned in the first
    probe         \* naming probe (NamingSpec only)

vars == <<product, MAX_WORKERS, store, store0, tmpdirs, files, run, mainpc, listed,
          done, next_i, jobs, st, world, calls, collected, log, firstRun,
          probe>>

runVars == <<product, MAX_WORKERS, store, store0, tmpdirs, files, run, mainpc,
             listed, done, next_i, jobs, st, world, calls, collected, log,
             firstRun>>

NoTask == [pc |-> "idle", step |-> 0, err |-> "none"]

\* the future of the task is done: as_completed yields it
SettledOnlyReturned(t) == st[t].pc = "returned"

Settled(t) == st[t].pc \in {"returned", "raised"}
Running(t) == st[t].pc \in {"get_dem", "engine", "upload", "cleanup"}
Submitted == Range(jobs)

\* the directory TemporaryDirectory() made for the task of tile t in this run
JobDir(t) == <<run, t>>

\* hillshade get_dem: the TemporaryDirectory it creates and never uses
InnerDir(t) == <<run, -t>>

\* the module-level folder that holds the color ramp (color-relief only)
RampDir == <<run, 0>>
RampDirs(prod, r) == IF prod = "color_relief" THEN {<<r, 0>>} ELSE {}

\* the ramp written when the module is loaded: color_file
ColorFiles(prod, r) ==
    {[dir |-> d, name |-> "color.txt", by |-> 0] : d \in RampDirs(prod, r)}

\* the folder a job writes its files to: folder_name, folder.name
WriteFolder(t) == JobDir(t)

\* the file a task writes, or tells a command to write
FileOf(t, name) == [dir |-> WriteFolder(t), name |-> name, by |-> t]

\* the output file of an engine command
OutputOf(cmd) ==
    CASE cmd = "gdal raster mosaic" -> "dem.tif"
      [] cmd = "gdal raster color-map" -> "colored.tif"
      [] cmd = "gdalbuildvrt" -> "vrt.vrt"
      [] cmd = "gdalwarp" -> "dem.tif"
      [] cmd = "gdaldem hillshade" -> "hillshade.tif"
      [] cmd = "gdalwarp COG" -> "hillshade_cog.tif"

\* folder in folder.cleanup() names the module-level folder
CleanupFolderGlobal(t) == RampDir

\* folder in folder.cleanup(): the local the task bound to its own directory
CleanupFolder(t) == JobDir(t)

KeyOf(t) == UploadKey(product, RunTiles[t].id)

\* the bucket before the first run: the artifacts of the first k cells of the
\* run are there (k = 0: none, k = MaxTiles: all), left by earlier runs
InitialStores(prod) ==
    {{UploadKey(prod, RunTiles[t].id) : t \in 1..k} : k \in 0..MaxTiles}

RunInit ==
    /\ product \in Products
    /\ MAX_WORKERS \in {MaxWorkersOf(c) : c \in CpuCounts}
    /\ store \in InitialStores(product)
    /\ store0 = store
    /\ tmpdirs = RampDirs(product, "first")
    /\ files = ColorFiles(product, "first")
    /\ run = "first"
    /\ mainpc = "list"
    /\ listed = "pending"
    /\ done = <<>>
    /\ next_i = 1
    /\ jobs = <<>>
    /\ st = [t \in Tiles |-> NoTask]
    /\ world = [t \in Tiles |-> NoWorld]
    /\ calls = [t \in Tiles |-> <<>>]
    /\ collected = {}
    /\ log = [t \in Tiles |-> <<>>]
    /\ firstRun = [submitted |-> 0, returned |-> 0]

Init == RunInit /\ probe = [stage |-> "off"]

(***************************************************************************)
(* main                                                                    *)
(***************************************************************************)
\* where main goes after the try block around the listing
AfterListingPropagates(ok) == IF ok THEN "submit" ELSE "crashed"

AfterListingRepeats(ok) == IF ok THEN "submit" ELSE "list"

AfterListing(ok) == "submit"

\* the try block at the top of main: the listing and the id extraction, or
\* done = [] when the command raises
ListDone(ok) ==
    /\ mainpc = "list"
    /\ done' = IF ok THEN DoneOf(LsOutput(product, store)) ELSE <<>>
    /\ listed' = IF ok THEN "ok" ELSE "failed"
    /\ mainpc' = AfterListing(ok)
    /\ UNCHANGED <<product, MAX_WORKERS, store, store0, tmpdirs, files, run, next_i,
                   jobs, st, world, calls, collected, log, firstRun, probe>>

\* name not in done
\* the test inverted: submit what is done
PendingIfDone(name, doneList) == name \in Range(doneList)

PendingAlways(name, doneList) == TRUE

Pending(name, doneList) == name \notin Range(doneList)

\* one iteration of the loop over the grid: submit the tile unless it is done
Submit ==
    /\ mainpc = "submit"
    /\ LET t == next_i IN
        IF Pending(RunTiles[t].id, done)
        THEN /\ jobs' = Append(jobs, t)
             /\ st' = [st EXCEPT ![t] = [@ EXCEPT !.pc = "queued"]]
        ELSE UNCHANGED <<jobs, st>>
    /\ next_i' = next_i + 1
    /\ mainpc' = IF next_i = MaxTiles THEN "collect" ELSE "submit"
    /\ UNCHANGED <<product, MAX_WORKERS, store, store0, tmpdirs, files, run, listed,
                   done, world, calls, collected, log, firstRun, probe>>

(***************************************************************************)
(* The text of a log record.  A text is a sequence whose elements are the   *)
(* characters of the interpolated values (ids, coordinates, keys) and, for  *)
(* the literal stretches of the f-strings and the generated directory       *)
(* names, one element per stretch; no stretch holds a tile id.              *)
(***************************************************************************)
\* str() of an integer
Str(n) == IF n < 0 THEN <<"-">> \o Digits(-n) ELSE Digits(n)

\* {bounds[0]}<sep>{bounds[1]}<sep>{bounds[2]}<sep>{bounds[3]}
BoundsText(b, sep) ==
    Str(b.min_x) \o sep \o Str(b.min_y) \o sep \o Str(b.max_x) \o sep
        \o Str(b.max_y)

\* the command line handed to check_output / check_call
CommandText(prod, cmd, b) ==
    CASE cmd = "gdal vector pipeline" ->
            <<"gdal vector pipeline ! read <catalog> ! filter --bbox=">>
                \o BoundsText(b, <<",">>) \o <<" ! info -f json --features">>
      [] cmd = "ogrinfo" ->
            <<"ogrinfo -spat ">> \o BoundsText(b, <<" ">>)
                \o <<" -json -features <catalog>">>
      [] cmd = "gdal raster mosaic" ->
            <<"gdal raster mosaic --bbox=">> \o BoundsText(b, <<",">>)
                \o <<" --of=COG --co=COMPRESS=ZSTD -i @<folder>/paths.txt",
                     " -o <folder>/dem.tif">>
      [] cmd = "gdal raster color-map" ->
            <<"gdal raster color-map --of=COG --co=COMPRESS=ZSTD",
              " --color-map=<ramp folder>/color.txt",
              " -i <folder>/dem.tif -o <folder>/colored.tif">>
      [] cmd = "gdalbuildvrt" ->
            <<"gdalbuildvrt input_file_list <folder>/paths.txt",
              " <folder>/vrt.vrt">>
      [] cmd = "gdalwarp" ->
            <<"gdalwarp -t_srs EPSG:4326 -co COMPRESS=ZSTD -te ">>
                \o BoundsText(b, <<" ">>)
                \o <<" <folder>/vrt.vrt <folder>/dem.tif">>
      [] cmd = "gdaldem hillshade" ->
            <<"gdaldem hillshade -z 10 -s 111120 -multidirectional",
              " <folder>/dem.tif <folder>/hillshade.tif">>
      [] cmd = "gdalwarp COG" ->
            <<"gdalwarp -of COG -co COMPRESS=ZSTD <folder>/hillshade.tif",
              " <folder>/hillshade_cog.tif">>
      [] cmd = UploadCommand ->
            <<"gcloud storage cp <folder>/<artifact>.tif ">>
                \o UploadKey(prod, b.id)

\* str(e) of the exception a task raised; cmd is the command that failed
ErrorMessage(prod, err, cmd, b) ==
    CASE err = "TypeError" ->
            <<"get_dem() missing 1 required positional argument: 'folder_name'">>
      [] err = "NoDEM" -> <<"No DEM ">> \o b.id
      [] OTHER ->
            <<"Command '">> \o CommandText(prod, cmd, b)
                \o <<"' returned non-zero exit status <n>.">>

\* the record main logs for the task of tile t: f"Error: {e}"
LogRecord(t) ==
    <<"Error: ">> \o
    ErrorMessage(product, st[t].err,
                 IF calls[t] = <<>> THEN "none" ELSE calls[t][Len(calls[t])],
                 RunTiles[t])

\* the text holds the id
Mentions(text, id) == \E i \in 1..Len(text) : StartsAt(text, i, id)

\* one iteration of the loop over as_completed(jobs): job.result(), and the
\* exception of a task that raised is logged
Collect(t) ==
    /\ mainpc = "collect"
    /\ t \in Submitted
    /\ t \notin collected
    /\ Settled(t)
    /\ collected' = collected \cup {t}
    /\ log' = IF st[t].pc = "raised"
              THEN [log EXCEPT ![t] = Append(@, LogRecord(t))]
              ELSE log
    /\ UNCHANGED <<product, MAX_WORKERS, store, store0, tmpdirs, files, run, mainpc,
                   listed, done, next_i, jobs, st, world, calls, firstRun,
                   probe>>

\* as_completed is exhausted, the with block shuts the pool down, main returns
Return ==
    /\ mainpc = "collect"
    /\ collected = Submitted
    /\ mainpc' = "done"
    /\ UNCHANGED <<product, MAX_WORKERS, store, store0, tmpdirs, files, run, listed,
                   done, next_i, jobs, st, world, calls, collected, log,
                   firstRun, probe>>

(***************************************************************************)
(* The worker pool and the task: create_color_relief / create_hillshade    *)
(***************************************************************************)
\* the task a free worker takes: the oldest submitted task not yet started
IsHeadOfQueue(t) ==
    /\ st[t].pc = "queued"
    /\ \A i, j \in 1..Len(jobs) :
          (jobs[j] = t /\ i < j) => st[jobs[i]].pc # "queued"

\* a worker of the pool is free
WorkerAlwaysFree == TRUE

WorkerFree ==
    Cardinality({u \in Tiles : Running(u)}) < PoolSize(product, MAX_WORKERS)

\* a worker starts the task: folder = TemporaryDirectory(delete=False); w is
\* how the external services will answer this task
Start(t, w) ==
    /\ IsHeadOfQueue(t)
    /\ WorkerFree
    /\ tmpdirs' = tmpdirs \cup {JobDir(t)}
    /\ UNCHANGED files
    /\ world' = [world EXCEPT ![t] = w]
    /\ st' = [st EXCEPT ![t] = [@ EXCEPT !.pc = "get_dem"]]
    /\ UNCHANGED <<product, MAX_WORKERS, store, store0, run, mainpc, listed,
                   done, next_i, jobs, calls, collected, log, firstRun, probe>>

\* the exception leaves the task: the future holds it
Raise(t, err) ==
    [st EXCEPT ![t] = [pc |-> "raised", step |-> @.step, err |-> err]]

\* get_dem after the catalog query: len(dem_tiles) > 0, else raise
AfterCatalogIgnoresEmpty(t, outcome) ==
    IF outcome = "fails" THEN Raise(t, "CatalogError")
    ELSE [st EXCEPT ![t] = [pc |-> "engine", step |-> 1, err |-> "none"]]

AfterCatalog(t, outcome) ==
    IF outcome = "fails" THEN Raise(t, "CatalogError")
    ELSE IF outcome = "empty" THEN Raise(t, "NoDEM")
    ELSE [st EXCEPT ![t] = [pc |-> "engine", step |-> 1, err |-> "none"]]

\* dem = get_dem(...): the call binds its arguments, then get_dem runs the
\* catalog query and raises when it returns no feature
GetDem(t) ==
    /\ st[t].pc = "get_dem"
    /\ IF GetDemArgs(product) # GetDemParams(product)
       THEN /\ st' = Raise(t, "TypeError")
            /\ UNCHANGED <<calls, tmpdirs, files>>
       ELSE /\ calls' = [calls EXCEPT ![t] = Append(@, CatalogCommand(product))]
            /\ st' = AfterCatalog(t, world[t].catalog)
            /\ tmpdirs' = IF world[t].catalog = "features"
                                /\ product = "hillshade"
                          THEN tmpdirs \cup {InnerDir(t)}
                          ELSE tmpdirs
            /\ files' = IF world[t].catalog = "features"
                        THEN files \cup {FileOf(t, "paths.txt")}
                        ELSE files
    /\ UNCHANGED <<product, MAX_WORKERS, store, store0, run, mainpc,
                   listed, done, next_i, jobs, world, collected, log,
                   firstRun, probe>>

\* the task goes on whatever the engine command returned
AfterEngineIgnoresFailure(t, ok) ==
    IF st[t].step < Len(EngineCommands(product))
    THEN [st EXCEPT ![t] = [@ EXCEPT !.step = @ + 1]]
    ELSE [st EXCEPT ![t] = [@ EXCEPT !.pc = "upload"]]

\* the task after an engine command returned
AfterEngine(t, ok) ==
    IF ~ok THEN Raise(t, "EngineError")
    ELSE IF st[t].step < Len(EngineCommands(product))
    THEN [st EXCEPT ![t] = [@ EXCEPT !.step = @ + 1]]
    ELSE [st EXCEPT ![t] = [@ EXCEPT !.pc = "upload"]]

\* one check_call of an engine command
Engine(t) ==
    /\ st[t].pc = "engine"
    /\ calls' = [calls EXCEPT
                    ![t] = Append(@, EngineCommands(product)[st[t].step])]
    /\ st' = AfterEngine(t, world[t].engine # st[t].step)
    /\ files' = files \cup
                   {FileOf(t, OutputOf(EngineCommands(product)[st[t].step]))}
    /\ UNCHANGED <<product, MAX_WORKERS, store, store0, tmpdirs, run, mainpc,
                   listed, done, next_i, jobs, world, collected, log,
                   firstRun, probe>>

\* check_call of gcloud storage cp
Upload(t) ==
    /\ st[t].pc = "upload"
    /\ calls' = [calls EXCEPT ![t] = Append(@, UploadCommand)]
    /\ store' = IF world[t].upload THEN store \cup {KeyOf(t)} ELSE store
    /\ st' = IF world[t].upload
             THEN [st EXCEPT ![t] = [@ EXCEPT !.pc = "cleanup"]]
             ELSE Raise(t, "UploadError")
    /\ UNCHANGED <<product, MAX_WORKERS, store0, tmpdirs, files, run, mainpc, listed,
                   done, next_i, jobs, world, collected, log, firstRun, probe>>

\* the task returns without folder.cleanup()
CleanupKeepsDir(t) ==
    /\ st[t].pc = "cleanup"
    /\ st' = [st EXCEPT ![t] = [@ EXCEPT !.pc = "returned"]]
    /\ UNCHANGED <<product, MAX_WORKERS, store, store0, tmpdirs, files, run, mainpc,
                   listed, done, next_i, jobs, world, calls, collected, log,
                   firstRun, probe>>

\* folder.cleanup() as the last statement of the task, then the task returns
Cleanup(t) ==
    /\ st[t].pc = "cleanup"
    /\ tmpdirs' = tmpdirs \ {CleanupFolder(t)}
    /\ files' = {f \in files : f.dir # CleanupFolder(t)}
    /\ st' = [st EXCEPT ![t] = [@ EXCEPT !.pc = "returned"]]
    /\ UNCHANGED <<product, MAX_WORKERS, store, store0, run, mainpc, listed,
                   done, next_i, jobs, world, calls, collected, log, firstRun,
                   probe>>

\* the script is invoked again on the same machine and bucket
Restart ==
    /\ mainpc = "done"
    /\ run = "first"
    /\ run' = "second"
    /\ firstRun' =
          [submitted |-> Len(jobs),
           returned |-> Cardinality({t \in Submitted : st[t].pc = "returned"})]
    /\ store0' = store
    /\ mainpc' = "list"
    /\ listed' = "pending"
    /\ done' = <<>>
    /\ next_i' = 1
    /\ jobs' = <<>>
    /\ st' = [t \in Tiles |-> NoTask]
    /\ world' = [t \in Tiles |-> NoWorld]
    /\ calls' = [t \in Tiles |-> <<>>]
    /\ collected' = {}
    /\ log' = [t \in Tiles |-> <<>>]
    /\ tmpdirs' = tmpdirs \cup RampDirs(product, "second")
    /\ files' = ColorFiles(product, "second")
    /\ UNCHANGED <<product, MAX_WORKERS, store, probe>>

Worker ==
    \E t \in Tiles :
        \/ \E w \in Worlds(product) : Start(t, w)
        \/ GetDem(t)
        \/ Engine(t)
        \/ Upload(t)
        \/ Cleanup(t)

Main ==
    \/ \E ok \in BOOLEAN : ListDone(ok)
    \/ Submit
    \/ \E t \in Tiles : Collect(t)
    \/ Return

\* one run of a job script
Next == Main \/ Worker

Spec == Init /\ [][Next]_vars

\* every thread that can take a step eventually takes one: each external
\* command returns, and the interpreter schedules every thread
FairSpec == Init /\ [][Next]_vars /\ WF_vars(Next)

\* a run followed by a second run
RerunNext == Next \/ Restart

RerunSpec == Init /\ [][RerunNext]_vars

(***************************************************************************)
(* Naming: the key a job uploads for one cell of the grid, the line the     *)
(* listing prints for it, and the id main extracts from that line.          *)
(***************************************************************************)
NamingInit ==
    /\ RunInit
    /\ store = {}
    /\ probe \in {[stage |-> "cell", k |-> k, key |-> <<>>, text |-> <<>>,
                   ids |-> <<>>, xy |-> <<>>] : k \in 1..Len(bboxes)}

\* the job's gcloud storage cp for cell k
ProbeUpload ==
    /\ probe.stage = "cell"
    /\ probe' = [probe EXCEPT !.stage = "uploaded",
                              !.key = UploadKey(product, bboxes[probe.k].id)]
    /\ UNCHANGED runVars

\* main's gcloud storage ls on a bucket that holds the uploaded object
ProbeList ==
    /\ probe.stage = "uploaded"
    /\ probe' = [probe EXCEPT
                    !.stage = "listed",
                    !.text = LsLines(product, {probe.key},
                                     <<bboxes[probe.k]>>, 1)]
    /\ UNCHANGED runVars

\* main's extraction of done from the listing
ProbeExtract ==
    /\ probe.stage = "listed"
    /\ probe' = [probe EXCEPT !.stage = "extracted", !.ids = DoneOf(probe.text)]
    /\ UNCHANGED runVars

\* a reader of the id of cell k
ProbeDecode ==
    /\ probe.stage = "cell"
    /\ probe' = [probe EXCEPT !.stage = "decoded",
                              !.xy = DecodeId(bboxes[probe.k].id)]
    /\ UNCHANGED runVars

NamingNext == ProbeUpload \/ ProbeList \/ ProbeExtract \/ ProbeDecode

NamingSpec == NamingInit /\ [][NamingNext]_vars

(***************************************************************************)
(* The module-level loops that build bboxes, one append per step: probe     *)
(* holds the positions of the two loops and the list built so far.          *)
(***************************************************************************)
GridInit ==
    /\ RunInit
    /\ store = {}
    /\ probe = [stage |-> "grid", xi |-> 1, yi |-> 1, cells |-> <<>>]

\* the body of the inner loop, and the step of the loops after it
GridAppend ==
    LET xs == PyRange(XStart, XStop, Step)
        ys == PyRange(YStart, YStop, Step)
        lastY == probe.yi = Len(ys)
        lastX == probe.xi = Len(xs)
    IN  /\ probe.stage = "grid"
        /\ probe' = [stage |-> IF lastY /\ lastX THEN "built" ELSE "grid",
                     xi |-> IF lastY THEN probe.xi + 1 ELSE probe.xi,
                     yi |-> IF lastY THEN 1 ELSE probe.yi + 1,
                     cells |-> Append(probe.cells,
                                      BBox(xs[probe.xi], ys[probe.yi]))]
        /\ UNCHANGED runVars

GridNext == GridAppend

GridSpec == GridInit /\ [][GridNext]_vars

(***************************************************************************)
(* Properties                                                              *)
(***************************************************************************)
TimesSubmitted(t) == Cardinality({i \in 1..Len(jobs) : jobs[i] = t})
FullPipeline ==
    <<CatalogCommand(product)>> \o EngineCommands(product) \o <<UploadCommand>>
MainPastSubmit == mainpc \in {"collect", "done"}

\* C1: failure isolation.  When main has returned, if the engine failed for
\* one submitted tile and every external command of every other submitted
\* tile succeeds, then every other submitted tile's task returned with its
\* artifact in the bucket, and every submitted task has settled.
C1_FailureIsolation ==
    mainpc = "done" =>
        /\ \A u \in Submitted : Settled(u)
        /\ \A f \in Submitted :
              (/\ EngineFails(world[f])
               /\ \A u \in Submitted \ {f} : AllSucceed(world[u]))
              => \A u \in Submitted \ {f} :
                    st[u].pc = "returned" /\ KeyOf(u) \in store

\* C2: when main has returned, every submitted tile whose catalog query
\* returns features and whose engine commands and upload succeed has its
\* artifact in the bucket under its key, its task having run the catalog
\* query, the engine commands and the upload in that order.
C2_SuccessfulTilePublished ==
    mainpc = "done" =>
        \A t \in Submitted :
            AllSucceed(world[t]) =>
                /\ KeyOf(t) \in store
                /\ calls[t] = FullPipeline

\* C3: a tile is never submitted twice, and once main's loop has passed it
\* the tile was submitted once if its id is not in done and not at all if it
\* is, whatever became of its task.
C3_OneTaskPerPendingTile ==
    \A t \in Tiles :
        /\ TimesSubmitted(t) <= 1
        /\ (MainPastSubmit \/ (mainpc = "submit" /\ t < next_i)) =>
              TimesSubmitted(t) =
                  (IF RunTiles[t].id \in Range(done) THEN 0 ELSE 1)

C3_Witness ==
    /\ mainpc = "done"
    /\ \E t, u \in Tiles :
          /\ st[t].pc = "raised" /\ TimesSubmitted(t) = 1
          /\ RunTiles[u].id \in Range(done) /\ TimesSubmitted(u) = 0

\* C4 as stated: if every task of the first run returned, the second run
\* submits no task.
C4_SecondRunSubmitsNothing ==
    (/\ run = "second"
     /\ firstRun.returned = firstRun.submitted
     /\ MainPastSubmit)
    => jobs = <<>>

\* C4 amended: if every task of the first run returned and the second run's
\* listing command succeeds, the second run submits no task.
C4_SecondRunSubmitsNothingWhenListed ==
    (/\ run = "second"
     /\ firstRun.returned = firstRun.submitted
     /\ listed = "ok"
     /\ MainPastSubmit)
    => jobs = <<>>

C4_Witness ==
    /\ run = "second"
    /\ firstRun.submitted > 0
    /\ firstRun.returned = firstRun.submitted
    /\ listed = "ok"
    /\ mainpc = "done"
    /\ jobs = <<>>

\* C5: the temporary directory of a task that raised no longer exists.
C5_FailedJobDirRemoved ==
    \A t \in Tiles : st[t].pc = "raised" => JobDir(t) \notin tmpdirs

\* C6: when the listing command fails, done is empty, main goes on, and
\* every tile of the grid is submitted.
C6_ListingFailureSubmitsAll ==
    listed = "failed" =>
        /\ done = <<>>
        /\ mainpc # "crashed"
        /\ MainPastSubmit => Submitted = Tiles

C6_Witness ==
    /\ listed = "failed"
    /\ store0 # {}
    /\ mainpc = "done"
    /\ Submitted = Tiles

\* C7: every run reaches the state in which all submitted tasks have settled
\* and main has returned.
C7_EventuallyDone ==
    <>(/\ mainpc = "done"
       /\ \A t \in Submitted : st[t].pc \in {"returned", "raised"})

C7_Witness ==
    /\ mainpc = "done"
    /\ Submitted = Tiles
    /\ \A t \in Tiles : st[t].pc = "raised"

\* C8: the number of tasks between their start and their settlement never
\* exceeds the size of the pool.
C8_AtMostPoolSizeRunning ==
    Cardinality({t \in Tiles : Running(t)}) <= PoolSize(product, MAX_WORKERS)

C8_Witness ==
    /\ Len(jobs) > PoolSize(product, MAX_WORKERS)
    /\ Cardinality({t \in Tiles : Running(t)}) = PoolSize(product, MAX_WORKERS)
    /\ \E t \in Tiles : st[t].pc = "queued"

\* C9: the task of a tile whose catalog query returns no feature runs no
\* engine command and no upload and adds no artifact to the bucket, and main
\* still returns only after every submitted task has settled.
C9_EmptyCatalogStopsJob ==
    /\ \A t \in Tiles :
          world[t].catalog = "empty" =>
              /\ st[t].pc \in {"get_dem", "raised"}
              /\ \A i \in 1..Len(calls[t]) :
                    calls[t][i] = CatalogCommand(product)
              /\ KeyOf(t) \in store => KeyOf(t) \in store0
    /\ mainpc = "done" => \A u \in Submitted : Settled(u)

C9_Witness ==
    /\ mainpc = "done"
    /\ \E t, u \in Tiles :
          /\ st[t].err = "NoDEM"
          /\ KeyOf(t) \notin store
          /\ st[u].pc = "returned"
          /\ KeyOf(u) \in store \ store0

\* C10: for every cell of the grid and each product, the id main extracts
\* from the listed path of the key the job uploads for the cell is the
\* cell's id.
C10_ExtractInvertsUploadKey ==
    probe.stage = "extracted" => probe.ids = <<bboxes[probe.k].id>>

C10_Witness ==
    /\ probe.stage = "extracted"
    /\ bboxes[probe.k].min_x < 0
    /\ bboxes[probe.k].min_y < 0
    /\ probe.ids = <<bboxes[probe.k].id>>

\* C11: the completion snapshot is taken once, before any task is submitted.
\* done and the outcome of the listing change only in the one step that takes
\* main from the listing to the loop, with no task submitted yet; main never
\* comes back to the listing; and the tiles submitted are those whose
\* artifact was not in the bucket when the run started, whatever has been
\* uploaded since.
C11_SnapshotOnceBeforeSubmit ==
    /\ [][(done' # done \/ listed' # listed) =>
             (/\ mainpc = "list" /\ mainpc' = "submit"
              /\ listed = "pending" /\ jobs = <<>>)]_vars
    /\ [][mainpc # "list" => mainpc' # "list"]_vars
    /\ [](listed = "ok" =>
             /\ done = DoneOf(LsOutput(product, store0))
             /\ MainPastSubmit =>
                   Submitted = {t \in Tiles : KeyOf(t) \notin store0})

C11_Witness ==
    /\ mainpc = "done"
    /\ listed = "ok"
    /\ store # store0
    /\ Submitted = {t \in Tiles : KeyOf(t) \notin store0}
    /\ \E t \in Tiles : KeyOf(t) \in store0

\* C12: the temporary directory of a task exists from the start of the task
\* until its last statement, so throughout the upload and after it; once a
\* task has returned its artifact is in the bucket and its directory is gone.
C12_DirOutlivesUpload ==
    \A t \in Tiles :
        /\ Running(t) => JobDir(t) \in tmpdirs
        /\ st[t].pc = "returned" =>
              /\ JobDir(t) \notin tmpdirs
              /\ KeyOf(t) \in store
              /\ calls[t][Len(calls[t])] = UploadCommand

C12_Witness ==
    \E t, u \in Tiles :
        /\ st[t].pc = "returned" /\ JobDir(t) \notin tmpdirs
        /\ st[u].pc = "cleanup" /\ JobDir(u) \in tmpdirs /\ KeyOf(u) \in store

\* C13: the pool main creates has MAX_WORKERS workers, and at least one.
C13_PoolSizeIsMaxWorkers ==
    mainpc # "list" =>
        /\ PoolSize(product, MAX_WORKERS) = MAX_WORKERS
        /\ PoolSize(product, MAX_WORKERS) >= 1

\* two cells share interior points
Overlap(a, b) ==
    /\ a.min_x < b.max_x /\ b.min_x < a.max_x
    /\ a.min_y < b.max_y /\ b.min_y < a.max_y

\* the one-degree square with lower left corner (x, y) lies in cell c
InCell(x, y, c) ==
    /\ c.min_x <= x /\ x + 1 <= c.max_x
    /\ c.min_y <= y /\ y + 1 <= c.max_y

\* C14: the list the loops build has 36 x 18 = 648 cells, each 10 degrees
\* wide and high with whole-degree corners inside [-180,180] x [-90,90]; no
\* two cells overlap; every one-degree square of [-180,180] x [-90,90] lies
\* in a cell; and the list is the same list, in the same order, in every run.
C14_GridPartitionsGlobe ==
    probe.stage = "built" =>
        LET cells == probe.cells IN
        /\ Len(cells) = 36 * 18
        /\ Len(cells) = 648
        /\ \A k \in 1..Len(cells) :
              /\ cells[k].max_x = cells[k].min_x + 10
              /\ cells[k].max_y = cells[k].min_y + 10
              /\ -180 <= cells[k].min_x /\ cells[k].max_x <= 180
              /\ -90 <= cells[k].min_y /\ cells[k].max_y <= 90
        /\ \A i, j \in 1..Len(cells) : i < j => ~Overlap(cells[i], cells[j])
        /\ \A x \in -180..179 : \A y \in -90..89 :
              \E k \in 1..Len(cells) : InCell(x, y, cells[k])
        /\ cells = bboxes

C14_Witness ==
    /\ probe.stage = "built"
    /\ Len(probe.cells) = 648
    /\ probe.cells[1].min_x = -180 /\ probe.cells[1].min_y = -90
    /\ probe.cells[648].max_x = 180 /\ probe.cells[648].max_y = 90

\* C15: for every cell of the grid, the integer before 'X' and the integer
\* between '_' and 'Y' of the cell's id are the cell's min_x and min_y,
\* whatever their sign, and no other cell of the grid has the same id.
C15_IdRoundTrip ==
    probe.stage = "decoded" =>
        /\ probe.xy = <<bboxes[probe.k].min_x, bboxes[probe.k].min_y>>
        /\ \A j \in 1..Len(bboxes) :
              bboxes[j].id = bboxes[probe.k].id => j = probe.k

C15_Witness ==
    /\ probe.stage = "decoded"
    /\ probe.xy = <<-180, 80>>
    /\ bboxes[probe.k].id = <<"-", "1", "8", "0", "X", "_", "0", "8", "0", "Y">>

\* C16: once a job has issued the engine command that fails, the job has
\* raised, that command is the last one it ever issues, no upload is among
\* its commands, and the store holds no object for its tile that was not
\* there when the run began.
C16_NoPartialCommit ==
    \A t \in Tiles :
        (EngineFails(world[t]) /\ Len(calls[t]) >= 1 + world[t].engine) =>
            /\ st[t].pc = "raised"
            /\ st[t].err = "EngineError"
            /\ Len(calls[t]) = 1 + world[t].engine
            /\ calls[t][Len(calls[t])] = EngineCommands(product)[world[t].engine]
            /\ UploadCommand \notin Range(calls[t])
            /\ KeyOf(t) \in store => KeyOf(t) \in store0

C16_Witness ==
    /\ mainpc = "done"
    /\ \E t \in Tiles :
          /\ st[t].err = "EngineError"
          /\ world[t].engine = Len(EngineCommands(product))
          /\ Len(calls[t]) = 1 + Len(EngineCommands(product))
          /\ KeyOf(t) \notin store

\* C17: main logs exactly one record for every job it found raised, none for
\* a job that returned, and the record of a raised job holds the id of the
\* job's tile, whatever raised.
C17_OneRecordNamingTheTile ==
    \A t \in Tiles :
        IF t \in collected /\ st[t].pc = "raised"
        THEN /\ Len(log[t]) = 1
             /\ Mentions(log[t][1], RunTiles[t].id)
        ELSE log[t] = <<>>

\* C18: files written by different writers lie in different directories; a
\* job's files lie in the job's own directory, and a step adds a file only
\* there and only while the job runs; a step removes files and directories
\* only as the cleanup of the job that owns them; and in a color-relief run
\* the ramp directory exists throughout and holds exactly the ramp file
\* written at startup, so every color-map command reads that file.
C18_FileEffectsLocal ==
    /\ [](\A f, g \in files : f.by # g.by => f.dir # g.dir)
    /\ [](\A f \in files : f.by # 0 => f.dir = JobDir(f.by))
    /\ [](product = "color_relief" =>
             /\ RampDir \in tmpdirs
             /\ {f \in files : f.dir = RampDir} = ColorFiles(product, run))
    /\ [][\A f \in files' \ files :
             f.by \in Tiles /\ Running(f.by) /\ f.dir = JobDir(f.by)]_vars
    /\ [][\A f \in files \ files' :
             \E t \in Tiles : /\ f.dir = JobDir(t)
                              /\ st[t].pc = "cleanup"
                              /\ st'[t].pc = "returned"]_vars
    /\ [][\A d \in tmpdirs \ tmpdirs' :
             \E t \in Tiles : /\ d = JobDir(t)
                              /\ st[t].pc = "cleanup"
                              /\ st'[t].pc = "returned"]_vars

C18_Witness ==
    /\ product = "color_relief"
    /\ mainpc = "done"
    /\ ColorFiles(product, run) \subseteq files
    /\ \E t, u \in Tiles :
          /\ st[t].pc = "returned"
          /\ "gdal raster color-map" \in Range(calls[t])
          /\ {f \in files : f.dir = JobDir(t)} = {}
          /\ st[u].err = "EngineError"
          /\ FileOf(u, "paths.txt") \in files
          /\ FileOf(u, "dem.tif") \in files

\* number of gcloud storage cp commands the task of tile t has issued
Uploads(t) ==
    Cardinality({i \in 1..Len(calls[t]) : calls[t][i] = UploadCommand})

\* C19: in a run, the task of a tile issues at most one upload; a tile whose
\* task uploads was submitted exactly once and its id is not in done; the
\* keys of two different tiles differ; and every object the run added to the
\* store is the key of a submitted tile whose id is not in done.
C19_OneUploadPerTile ==
    /\ \A t \in Tiles :
          /\ Uploads(t) <= 1
          /\ Uploads(t) = 1 =>
                /\ TimesSubmitted(t) = 1
                /\ RunTiles[t].id \notin Range(done)
    /\ \A t, u \in Tiles : t # u => KeyOf(t) # KeyOf(u)
    /\ store \ store0 \subseteq
          {KeyOf(t) : t \in {u \in Submitted : RunTiles[u].id \notin Range(done)}}

C19_Witness ==
    \E t, u \in Tiles :
        /\ t # u
        /\ st[t].pc = "cleanup" /\ st[u].pc = "cleanup"
        /\ Uploads(t) = 1 /\ Uploads(u) = 1
        /\ {KeyOf(t), KeyOf(u)} \subseteq store \ store0
====
